---------------------------- MODULE Spec2Model ----------------------------
(***************************************************************************)
(* A model of package pass (src/pass.go): a Go binding around the pass     *)
(* password manager.  A string is a sequence of pieces: one character per  *)
(* piece wherever the program or the tool looks inside the string (names,  *)
(* paths, contents), so that suffix tests, joins, splits and lexical       *)
(* comparisons are computed and not assumed; a whole word per piece for    *)
(* the tokens nothing looks inside (flags, subcommands, messages).  The    *)
(* file system is one tree of nodes keyed by the sequence of path          *)
(* components from "/".                                                    *)
(***************************************************************************)
EXTENDS Integers, Sequences, FiniteSets, TLC

(***************************************************************************)
(* Bounds of the model.                                                    *)
(***************************************************************************)
\* Largest number of nodes the environment adds below the store directory.
MaxNodes == 3
\* Deepest node, counted in components below the store directory.
MaxDepth == 3
\* Largest number of runs of the external tool that change the file system.
MaxWrites == 2
\* Largest number of changes other programs make to the store directory
\* while one call of List is in flight.
MaxChanges == 1

(***************************************************************************)
(* Strings.                                                                *)
(***************************************************************************)
\* The characters the model uses, in increasing byte order.
Alphabet ==
    << "\n", "-", ".", "/", "a", "b", "c", "d", "e", "f", "g", "h", "i",
       "j", "k", "l", "m", "n", "o", "p", "q", "r", "s", "t", "u", "v",
       "w", "x", "y", "z" >>

\* Rank of a character in byte order (Go compares strings bytewise).
CharCode(c) == CHOOSE i \in 1..Len(Alphabet) : Alphabet[i] = c

RECURSIVE StrLess(_, _)
\* a < b on Go strings.
StrLess(a, b) ==
    IF a = <<>> THEN b # <<>>
    ELSE IF b = <<>> THEN FALSE
    ELSE IF a[1] = b[1] THEN StrLess(Tail(a), Tail(b))
    ELSE CharCode(a[1]) < CharCode(b[1])

HasSuffix(s, suffix) ==
    /\ Len(s) >= Len(suffix)
    /\ SubSeq(s, Len(s) - Len(suffix) + 1, Len(s)) = suffix

TrimSuffix(s, suffix) ==
    IF HasSuffix(s, suffix) THEN SubSeq(s, 1, Len(s) - Len(suffix)) ELSE s

Slash == << "/" >>
GpgSuffix == << ".", "g", "p", "g" >>
DotGit == << ".", "g", "i", "t" >>
GpgIdFile == << ".", "g", "p", "g", "-", "i", "d" >>
DefaultStoreName ==
    << ".", "p", "a", "s", "s", "w", "o", "r", "d", "-", "s", "t", "o", "r", "e" >>

RECURSIVE SplitAcc(_, _, _, _)
SplitAcc(s, sep, cur, done) ==
    IF s = <<>> THEN Append(done, cur)
    ELSE IF Head(s) = sep THEN SplitAcc(Tail(s), sep, <<>>, Append(done, cur))
    ELSE SplitAcc(Tail(s), sep, Append(cur, Head(s)), done)

\* strings.Split(s, sep) for a one-character separator: the pieces between
\* separators, empty pieces kept.
SplitOn(s, sep) == SplitAcc(s, sep, <<>>, <<>>)

Split(s) == SplitOn(s, "/")

RECURSIVE JoinComponents(_)
\* The components written with "/" between them.
JoinComponents(cs) ==
    IF cs = <<>> THEN <<>>
    ELSE IF Len(cs) = 1 THEN cs[1]
    ELSE cs[1] \o Slash \o JoinComponents(Tail(cs))

Dot == << "." >>
DotDot == << ".", "." >>

RECURSIVE CleanElements(_, _, _)
\* The loop of filepath.Clean over the elements of a path: empty and "."
\* elements go, a ".." element takes back the element before it, goes
\* itself at the root, and stays at the front of a path that is not rooted.
CleanElements(elems, rooted, out) ==
    IF elems = <<>> THEN out
    ELSE IF Head(elems) = <<>> \/ Head(elems) = Dot
    THEN CleanElements(Tail(elems), rooted, out)
    ELSE IF Head(elems) # DotDot
    THEN CleanElements(Tail(elems), rooted, Append(out, Head(elems)))
    ELSE IF out # <<>> /\ out[Len(out)] # DotDot
    THEN CleanElements(Tail(elems), rooted, SubSeq(out, 1, Len(out) - 1))
    ELSE IF rooted THEN CleanElements(Tail(elems), rooted, out)
    ELSE CleanElements(Tail(elems), rooted, Append(out, DotDot))

\* Whether a path begins with "/".
Rooted(path) == path # <<>> /\ path[1] = "/"

\* The elements of the cleaned path.
Components(path) == CleanElements(Split(path), Rooted(path), <<>>)

\* filepath.Clean: the shortest path naming the same place by its text
\* alone; the empty path is ".".
Clean(path) ==
    IF Rooted(path) THEN Slash \o JoinComponents(Components(path))
    ELSE IF Components(path) = <<>> THEN Dot
    ELSE JoinComponents(Components(path))

\* filepath.Join of two elements: empty elements are ignored, the result is
\* cleaned, and joining nothing gives the empty string.
Join(a, b) ==
    IF a = <<>> /\ b = <<>> THEN <<>>
    ELSE IF a = <<>> THEN Clean(b)
    ELSE Clean(a \o Slash \o b)

RECURSIVE CommonLen(_, _)
\* The number of leading elements two sequences share.
CommonLen(a, b) ==
    IF a = <<>> \/ b = <<>> \/ Head(a) # Head(b) THEN 0
    ELSE 1 + CommonLen(Tail(a), Tail(b))

\* filepath.Rel(basepath, targpath), "" standing for its error (List drops
\* the error and uses the empty string): "." for the base itself, otherwise
\* one ".." for every element of the base the target does not share, then
\* the rest of the target.  A cleaned base of "." counts as no elements;
\* a cleaned target of "." keeps its one element ".".
Rel(basepath, targpath) ==
    LET b == Components(basepath)
        t == IF Clean(targpath) = Dot THEN << Dot >> ELSE Components(targpath)
        k == CommonLen(b, t)
    IN  IF Clean(targpath) = Clean(basepath) THEN Dot
        ELSE IF Rooted(basepath) # Rooted(targpath) THEN <<>>
        ELSE IF k < Len(b) /\ k < Len(t) /\ b[k + 1] = DotDot THEN <<>>
        ELSE JoinComponents([i \in 1..(Len(b) - k) |-> DotDot]
                                \o SubSeq(t, k + 1, Len(t)))

RECURSIVE TrimSlashes(_)
\* A path without the slashes at its end, the first character kept.
TrimSlashes(path) ==
    IF Len(path) > 1 /\ path[Len(path)] = "/"
    THEN TrimSlashes(SubSeq(path, 1, Len(path) - 1))
    ELSE path

\* os.FileInfo.Name of the info os.Lstat gives for a path: the text after
\* the last slash of the path as it was given, slashes at its end apart
\* ("." for "/s/.", ".git" for "/s/.git/", "/" for "/").
Base(path) ==
    IF TrimSlashes(path) = Slash THEN Slash
    ELSE Split(TrimSlashes(path))[Len(Split(TrimSlashes(path)))]

(***************************************************************************)
(* The file system: a function from paths (sequences of names from "/")    *)
(* to nodes.  A node is a directory, a regular file or a symbolic link.    *)
(* A directory is one of four kinds by what the calling user may do with   *)
(* it: "dir" may be read and searched, "rdir" read but not searched,       *)
(* "xdir" searched but not read, "udir" neither.  A regular file carries   *)
(* its data, a symbolic link the path it points to.  The calling user is   *)
(* not the superuser, and the working directory is "/".                    *)
(***************************************************************************)
DirNode == [kind |-> "dir", data |-> <<>>, key |-> <<>>]
UnreadableDirNode == [kind |-> "udir", data |-> <<>>, key |-> <<>>]
ReadOnlyDirNode == [kind |-> "rdir", data |-> <<>>, key |-> <<>>]
SearchOnlyDirNode == [kind |-> "xdir", data |-> <<>>, key |-> <<>>]
SymlinkNode(target) == [kind |-> "symlink", data |-> target, key |-> <<>>]
FileNode(data, key) == [kind |-> "file", data |-> data, key |-> key]
\* What os.Lstat reports for a path it cannot resolve.
NoNode == [kind |-> "none", data |-> <<>>, key |-> <<>>]

\* os.FileInfo.IsDir.
IsDir(info) == info.kind \in {"dir", "rdir", "xdir", "udir"}
\* Whether names may be looked up in a directory (its x permission).
Searchable(info) == info.kind \in {"dir", "xdir"}
\* Whether the names of a directory may be read (its r permission).
Readable(info) == info.kind \in {"dir", "rdir"}

NotFound == [ok |-> FALSE, at |-> <<>>]

RECURSIVE Resolve(_, _, _, _, _, _)
\* The kernel's walk along the elements of a path from the node at.  An
\* empty element (a doubled or a final slash) needs a directory; every
\* other element, "." and ".." too, is looked up in a directory that may be
\* searched; ".." is the directory above (the root at the root).  A
\* symbolic link that is met with elements left over, or at the end when
\* followLast is set, is replaced by the path it points to, taken from the
\* root if that path is rooted and from the directory of the link if not.
\* links is the number of links that may still be followed.  met holds the
\* places where a link was followed, each with the path then left over: a
\* walk that comes to one of them again would go round for ever and so
\* fails under any limit.  (The step through a link is written as a choice
\* from a set of one, so that the path left over is computed once.)
Resolve(f, at, elems, followLast, links, met) ==
    CASE elems = <<>> -> [ok |-> TRUE, at |-> at]
      [] elems # <<>> /\ (at \notin DOMAIN f \/ ~IsDir(f[at])) -> NotFound
      [] OTHER ->
         CASE Head(elems) = <<>> ->
                Resolve(f, at, Tail(elems), followLast, links, met)
           [] Head(elems) # <<>> /\ ~Searchable(f[at]) -> NotFound
           [] OTHER ->
              CASE Head(elems) = Dot ->
                     Resolve(f, at, Tail(elems), followLast, links, met)
                [] Head(elems) = DotDot ->
                     Resolve(f, SubSeq(at, 1, Len(at) - 1), Tail(elems),
                             followLast, links, met)
                [] OTHER ->
                   LET next == Append(at, Head(elems))
                   IN  CASE next \notin DOMAIN f -> NotFound
                         [] next \in DOMAIN f
                            /\ f[next].kind = "symlink"
                            /\ (Tail(elems) # <<>> \/ followLast) ->
                              IF \/ links = 0
                                 \/ f[next].data = <<>>
                                 \/ << at, elems >> \in met
                              THEN NotFound
                              ELSE CHOOSE r \in
                                     { Resolve(f, from, rest, followLast, left, m) :
                                         from \in { IF Rooted(f[next].data)
                                                    THEN <<>> ELSE at },
                                         rest \in { Split(f[next].data)
                                                      \o Tail(elems) },
                                         left \in { links - 1 },
                                         m \in { met \cup { << at, elems >> } } }
                                     : TRUE
                         [] OTHER ->
                              Resolve(f, next, Tail(elems), followLast, links, met)

\* The node a path names, if any; the kernel follows at most 40 symbolic
\* links on the way.
Locate(f, path, followLast) ==
    IF path = <<>> THEN NotFound
    ELSE Resolve(f, <<>>, Split(path), followLast, 40, {})

\* os.Lstat: the node at a path, a symbolic link at its end not followed.
Lstat(f, path) ==
    IF Locate(f, path, FALSE).ok THEN f[Locate(f, path, FALSE).at] ELSE NoNode

ChildNames(f, cs) ==
    { p[Len(p)] : p \in { q \in DOMAIN f : Len(q) = Len(cs) + 1
                                           /\ SubSeq(q, 1, Len(cs)) = cs } }

RECURSIVE SortNamesDescending(_)
\* SortNames with a fault: the names in decreasing byte order.
SortNamesDescending(S) ==
    IF S = {} THEN <<>>
    ELSE LET m == CHOOSE x \in S : \A y \in S \ {x} : StrLess(y, x)
         IN  << m >> \o SortNamesDescending(S \ {m})

RECURSIVE SortNames(_)
\* sort.Strings: the names in increasing byte order.
SortNames(S) ==
    IF S = {} THEN <<>>
    ELSE LET m == CHOOSE x \in S : \A y \in S \ {x} : StrLess(x, y)
         IN  << m >> \o SortNames(S \ {m})

\* readDirNames of filepath.Walk: os.Open of the path, which follows a
\* symbolic link at its end, then the sorted names of the directory's
\* entries; an error for what cannot be opened and read as a directory.
readDirNames(f, path) ==
    IF Locate(f, path, TRUE).ok /\ Readable(f[Locate(f, path, TRUE).at])
    THEN [failed |-> FALSE,
          names |-> SortNames(ChildNames(f, Locate(f, path, TRUE).at))]
    ELSE [failed |-> TRUE, names |-> <<>>]

(***************************************************************************)
(* Options and the process environment.                                    *)
(***************************************************************************)
\* The value of an environment variable that is not set.
Unset == << "\n" >>

\* opts == nil.
NilOptions == [isNil |-> TRUE, StoreDir |-> <<>>]
Options(storeDir) == [isNil |-> FALSE, StoreDir |-> storeDir]

\* os.Getenv: the value of a variable, "" when it is not set.
Getenv(env, name) == IF env[name] = Unset THEN <<>> ELSE env[name]

(***************************************************************************)
(* List (src/pass.go:44-75).                                               *)
(***************************************************************************)
\* walkFn with a fault: it walks into directories named ".git".
walkFnNoSkip(storeDir, p, info, failed, acc) ==
    IF failed THEN [err |-> "EIO", ret |-> acc]
    ELSE IF IsDir(info) \/ ~HasSuffix(Base(p), GpgSuffix)
         THEN [err |-> "nil", ret |-> acc]
    ELSE [err |-> "nil",
          ret |-> Append(acc, TrimSuffix(Rel(storeDir, p), GpgSuffix))]

\* The function List hands to filepath.Walk: its result and the list so
\* far.  failed: Walk reports an error for p.
walkFn(storeDir, p, info, failed, acc) ==
    IF failed THEN [err |-> "EIO", ret |-> acc]
    ELSE IF IsDir(info) /\ Base(p) = DotGit
         THEN [err |-> "SkipDir", ret |-> acc]
    ELSE IF IsDir(info) \/ ~HasSuffix(Base(p), GpgSuffix)
         THEN [err |-> "nil", ret |-> acc]
    ELSE [err |-> "nil",
          ret |-> Append(acc, TrimSuffix(Rel(storeDir, p), GpgSuffix))]

\* The walk in progress: the paths still to visit, first to last (each
\* with the directory it was read from, and, once os.Lstat has been
\* called for it, its info), the names collected, and the error that
\* ended the walk.
WalkItem(path, dir, root) ==
    [path |-> path, dir |-> dir, root |-> root, phase |-> "lstat",
     info |-> NoNode]
NoWalk == [todo |-> <<>>, acc |-> <<>>, err |-> "nil"]
\* filepath.Walk(root, walkFn) begins.
WalkBegin(root) == [NoWalk EXCEPT !.todo = << WalkItem(root, <<>>, TRUE) >>]
\* The walk is over.
WalkDone(w) == w.todo = <<>>

RECURSIVE DropSiblings(_, _)
\* The paths to visit without the leading ones read from directory dir.
DropSiblings(todo, dir) ==
    IF todo # <<>> /\ Head(todo).dir = dir /\ ~Head(todo).root
    THEN DropSiblings(Tail(todo), dir)
    ELSE todo

\* What walk's loop, and Walk for the root, do with the result r of
\* walkFn for the first path to visit: with nil go on (to the entries
\* push of the directory, if the walk goes into it); SkipDir from a
\* directory, or for a name that could not be examined, skips it; SkipDir
\* from anything else skips the rest of its directory; SkipDir for the
\* root ends the walk without an error; any other error ends the walk.
walkAfter(w, isDir, r, push) ==
    IF r.err = "nil"
    THEN [todo |-> push \o Tail(w.todo), acc |-> r.ret, err |-> "nil"]
    ELSE IF r.err # "SkipDir"
    THEN [todo |-> <<>>, acc |-> r.ret, err |-> r.err]
    ELSE IF Head(w.todo).root
    THEN [todo |-> <<>>, acc |-> r.ret, err |-> "nil"]
    ELSE IF isDir
    THEN [todo |-> Tail(w.todo), acc |-> r.ret, err |-> "nil"]
    ELSE [todo |-> DropSiblings(Tail(w.todo), Head(w.todo).dir),
          acc |-> r.ret, err |-> "nil"]

\* The first path to visit, now known to be a directory with the given
\* info: its entries are read in a later step.
walkToRead(w, info, acc) ==
    [todo |-> << [Head(w.todo) EXCEPT !.phase = "read", !.info = info] >>
                 \o Tail(w.todo),
     acc |-> acc, err |-> "nil"]

\* The entries of directory path, as paths to visit.
walkEntries(path, names) ==
    [i \in 1..Len(names) |-> WalkItem(Join(path, names[i]), path, FALSE)]

\* os.Lstat of the first path to visit, and what follows it without
\* another look at the file system.  A path that cannot be examined goes
\* to walkFn with the error; anything but a directory goes to walkFn; a
\* directory waits for its entries to be read, after walkFn has seen it in
\* the library that calls walkFn before it reads.
walkLstat(w, readsFirst, storeDir, info) ==
    IF info.kind = "none"
    THEN walkAfter(w, TRUE,
                   walkFn(storeDir, Head(w.todo).path, info, TRUE, w.acc), <<>>)
    ELSE IF ~IsDir(info)
    THEN walkAfter(w, FALSE,
                   walkFn(storeDir, Head(w.todo).path, info, FALSE, w.acc), <<>>)
    ELSE IF readsFirst THEN walkToRead(w, info, w.acc)
    ELSE IF walkFn(storeDir, Head(w.todo).path, info, FALSE, w.acc).err = "nil"
    THEN walkToRead(w, info,
                    walkFn(storeDir, Head(w.todo).path, info, FALSE, w.acc).ret)
    ELSE walkAfter(w, TRUE,
                   walkFn(storeDir, Head(w.todo).path, info, FALSE, w.acc), <<>>)

\* readDirNames of the first path to visit (rd is its result), and what
\* follows it.  The library that reads first calls walkFn now, with the
\* error of the read if it failed; the other calls walkFn again only when
\* the read failed.  After a failed read the walk does not go into the
\* directory, whatever walkFn returns.
walkRead(w, readsFirst, storeDir, rd) ==
    IF readsFirst \/ rd.failed
    THEN walkAfter(w, TRUE,
                   walkFn(storeDir, Head(w.todo).path, Head(w.todo).info,
                          rd.failed, w.acc),
                   IF rd.failed THEN <<>>
                   ELSE walkEntries(Head(w.todo).path, rd.names))
    ELSE [todo |-> walkEntries(Head(w.todo).path, rd.names) \o Tail(w.todo),
          acc |-> w.acc, err |-> "nil"]

\* One step of filepath.Walk on the file system f as it is now: one look
\* at the file system (os.Lstat of a path, or the read of a directory) and
\* the calls of walkFn that follow it.  readsFirst tells which of the two
\* orders the library has; both exist among Go releases.
walk(f, readsFirst, storeDir, w) ==
    IF Head(w.todo).phase = "lstat"
    THEN walkLstat(w, readsFirst, storeDir, Lstat(f, Head(w.todo).path))
    ELSE walkRead(w, readsFirst, storeDir, readDirNames(f, Head(w.todo).path))

RECURSIVE walkAll(_, _, _, _)
\* The walk taken to its end on a file system that does not change.
walkAll(f, readsFirst, storeDir, w) ==
    IF WalkDone(w) THEN w
    ELSE walkAll(f, readsFirst, storeDir, walk(f, readsFirst, storeDir, w))

\* filepath.Walk(root, walkFn) on a file system that does not change.
Walk(f, readsFirst, storeDir, root) ==
    walkAll(f, readsFirst, storeDir, WalkBegin(root))

\* The store directory List walks.
ListStoreDir(env, opts) ==
    IF ~opts.isNil /\ opts.StoreDir # <<>> THEN opts.StoreDir
    ELSE Join(Getenv(env, "HOME"), DefaultStoreName)

\* The directory List starts its walk at.
ListTargetDir(env, subfolder, opts) ==
    IF subfolder # <<>> THEN Join(ListStoreDir(env, opts), subfolder)
    ELSE ListStoreDir(env, opts)

\* listResult with a fault: the names collected before the walk failed are
\* returned beside the error.
listResultPartial(w) == [ret |-> w.acc, err |-> w.err]

\* What List returns after the walk (lines 71-74).
listResult(w) ==
    IF w.err # "nil" THEN [ret |-> <<>>, err |-> w.err]
    ELSE [ret |-> w.acc, err |-> "nil"]

\* List on a file system that does not change during the call.
List(f, readsFirst, env, subfolder, opts) ==
    listResult(Walk(f, readsFirst, ListStoreDir(env, opts),
                    ListTargetDir(env, subfolder, opts)))

(***************************************************************************)
(* The argument lists and the command (src/pass.go:26-185).                *)
(***************************************************************************)
ForceFlag == << "--force" >>
RecursiveFlag == << "--recursive" >>
MultilineFlag == << "--multiline" >>
StoreDirVar == "PASSWORD_STORE_DIR"
GpgOptsVar == "PASSWORD_STORE_GPG_OPTS"
EnvVars == {"HOME", StoreDirVar, GpgOptsVar}
\* The value Show gives PASSWORD_STORE_GPG_OPTS.
ShowGpgOpts ==
    << "--passphrase-fd=0", " ", "--pinentry-mode=loopback", " ", "--batch" >>

\* The name of the external tool's subcommand for each operation.
Subcommand(op) ==
    CASE op = "Init" -> << "init" >>
      [] op = "Show" -> << "show" >>
      [] op = "Insert" -> << "insert" >>
      [] op = "Remove" -> << "rm" >>
      [] op = "Move" -> << "mv" >>
      [] op = "Copy" -> << "cp" >>
      [] op = "Git" -> << "git" >>

\* The text each operation puts before the error of the run.
ErrorPrefix(op) ==
    CASE op = "Init" -> << "exec init: " >>
      [] op = "Show" -> << "exec show: " >>
      [] op = "Insert" -> << "exec insert: " >>
      [] op = "Remove" -> << "exec rm: " >>
      [] op = "Move" -> << "exec mv: " >>
      [] op = "Copy" -> << "exec cp: " >>
      [] op = "Git" -> << "exec git subcommand: " >>

InitArgs(gpgID, subfolder) ==
    (IF subfolder # <<>> THEN << subfolder >> ELSE <<>>) \o << gpgID >>

\* InsertArgs with a fault: the name comes before the flags.
InsertArgsNameFirst(name, force) ==
    << name >> \o (IF force THEN << ForceFlag >> ELSE <<>>) \o << MultilineFlag >>

InsertArgs(name, force) ==
    (IF force THEN << ForceFlag >> ELSE <<>>) \o << MultilineFlag >> \o << name >>

RemoveArgs(name, recursive, force) ==
    (IF recursive THEN << RecursiveFlag >> ELSE <<>>)
        \o (IF force THEN << ForceFlag >> ELSE <<>>) \o << name >>

MoveArgs(oldPath, newPath, force) ==
    (IF force THEN << ForceFlag >> ELSE <<>>) \o << oldPath >> \o << newPath >>

CopyArgs(oldPath, newPath, force) ==
    (IF force THEN << ForceFlag >> ELSE <<>>) \o << oldPath >> \o << newPath >>

\* An error value: nil, or a message.
NoError == [isNil |-> TRUE, msg |-> <<>>]
Error(msg) == [isNil |-> FALSE, msg |-> msg]

\* No command.
NoCmd ==
    [argv |-> <<>>, env |-> <<>>, hasStdin |-> FALSE, stdin |-> <<>>,
     runs |-> 0, started |-> 0, state |-> "none", runErr |-> NoError,
     stdout |-> <<>>, stderr |-> <<>>]

\* The command execCommand builds (lines 163-179): the argument list after
\* the program name, the environment list (empty: the list is nil and the
\* child inherits the parent's environment), and standard input.
execCommand(subcommand, args, hasIn, in, extraEnv, opts) ==
    [NoCmd EXCEPT
        !.argv = << subcommand >> \o args,
        !.env = (IF ~opts.isNil /\ opts.StoreDir # <<>>
                 THEN << << StoreDirVar, opts.StoreDir >> >>
                 ELSE <<>>) \o extraEnv,
        !.hasStdin = hasIn,
        !.stdin = in]

\* RunsAgain with a fault: the command is run a second time after an error.
RunsAgainOnError(c) == ~c.runErr.isNil /\ c.runs < 2

\* Whether execCommand runs the command again after a run (lines 181-184:
\* it returns after the first run, whatever its result).
RunsAgain(c) == FALSE

\* What execCommand returns after the run (lines 181-184).
execResult(c) ==
    IF ~c.runErr.isNil THEN [out |-> <<>>, err |-> c.runErr]
    ELSE [out |-> c.stdout, err |-> NoError]

\* A result of an operation.
Result(content, list, err) == [content |-> content, list |-> list, err |-> err]
NoResult == Result(<<>>, <<>>, NoError)

\* The result of List, from its names and its error.
ListResult(r) ==
    Result(<<>>, r.ret, IF r.err = "nil" THEN NoError ELSE Error(<< r.err >>))

\* ShowResult with a fault: the captured bytes are returned beside the error.
ShowResultKeepsOutput(c) ==
    IF ~c.runErr.isNil
    THEN Result(c.stdout, <<>>, Error(ErrorPrefix("Show") \o c.runErr.msg))
    ELSE Result(c.stdout, <<>>, NoError)

\* What Show returns (lines 80-84).
ShowResult(c) ==
    LET r == execResult(c)
    IN  IF ~r.err.isNil
        THEN Result(<<>>, <<>>, Error(ErrorPrefix("Show") \o r.err.msg))
        ELSE Result(r.out, <<>>, NoError)

\* What Init, Insert, Remove, Move, Copy and Git return.
OpResult(op, c) ==
    LET r == execResult(c)
    IN  IF ~r.err.isNil
        THEN Result(<<>>, <<>>, Error(ErrorPrefix(op) \o r.err.msg))
        ELSE NoResult

\* The environment of the child process: the parent's when the command's
\* list is nil, otherwise exactly the variables of the list.
ChildEnv(parent, list) ==
    IF list = <<>> THEN parent
    ELSE [n \in EnvVars |->
            IF \E i \in 1..Len(list) : list[i][1] = n
            THEN list[CHOOSE i \in 1..Len(list) :
                        /\ list[i][1] = n
                        /\ \A j \in (i + 1)..Len(list) : list[j][1] # n][2]
            ELSE Unset]

(***************************************************************************)
(* The external tool, pass, which the package runs and does not contain:   *)
(* what a run of it prints, how it exits and what it changes on disk.      *)
(***************************************************************************)
TestGpgID == << "0F5E1E3F3CE3019D9A3AD09313B82ACF5C4BAB55" >>
TestGpgPassphrase == << "test_passphrase" >>
WrongPassphrase == << "wrong_passphrase" >>
\* The keys gpg can encrypt to, and decrypt for given the test passphrase.
KnownKeys == {TestGpgID}
\* Bytes a failing run may have written to standard output before it failed.
PartialOutput == << "partial output" >>

\* The store root the tool resolves from its own environment:
\* ${PASSWORD_STORE_DIR:-$HOME/.password-store}.
ToolPrefix(e) ==
    IF Getenv(e, StoreDirVar) # <<>> THEN Getenv(e, StoreDirVar)
    ELSE Getenv(e, "HOME") \o Slash \o DefaultStoreName

ToolFlags == {ForceFlag, RecursiveFlag, MultilineFlag}
Positional(args) == SelectSeq(args, LAMBDA a : a \notin ToolFlags)
HasFlag(args, flag) == \E i \in 1..Len(args) : args[i] = flag

Prefixes(cs) == { SubSeq(cs, 1, i) : i \in 0..Len(cs) }
IsPrefixOf(cs, q) == Len(q) >= Len(cs) /\ SubSeq(q, 1, Len(cs)) = cs
Parent(cs) == SubSeq(cs, 1, Len(cs) - 1)

\* mkdir -p can make the directory: nothing on the way is a non-directory.
CanMkdirAll(f, cs) == \A q \in Prefixes(cs) : q \in DOMAIN f => IsDir(f[q])
MkdirAll(f, cs) ==
    [q \in DOMAIN f \cup Prefixes(cs) |-> IF q \in DOMAIN f THEN f[q] ELSE DirNode]
WriteNode(f, cs, node) ==
    [q \in DOMAIN f \cup {cs} |-> IF q = cs THEN node ELSE f[q]]
RemoveTree(f, cs) == [q \in { r \in DOMAIN f : ~IsPrefixOf(cs, r) } |-> f[q]]

RECURSIVE PruneEmpty(_, _, _)
\* rmdir -p: remove the directory and its parents below stop while empty.
PruneEmpty(f, dir, stop) ==
    IF Len(dir) > Len(stop) /\ dir \in DOMAIN f /\ ChildNames(f, dir) = {}
    THEN PruneEmpty(RemoveTree(f, dir), Parent(dir), stop)
    ELSE f

RECURSIVE IdLines(_)
\* The text of .gpg-id: one line per identity.
IdLines(ids) ==
    IF ids = <<>> THEN <<>> ELSE Head(ids) \o << "\n" >> \o IdLines(Tail(ids))

\* The identities a .gpg-id text names.
Recipients(text) ==
    LET ls == SplitOn(text, "\n")
    IN  { ls[i] : i \in { j \in 1..Len(ls) : ls[j] # <<>> } }

\* The first line of standard input, which gpg reads as the passphrase.
FirstLine(in) == SplitOn(in, "\n")[1]

EntryFile(prefix, name) == Components(prefix \o Slash \o name \o GpgSuffix)

Outcome(code, out, errText, f) ==
    [exit |-> code, stdout |-> out, stderr |-> errText, fs |-> f]

ToolInit(f, prefix, args) ==
    LET dir == Components(prefix)
    IN  IF Positional(args) = <<>> \/ ~CanMkdirAll(f, dir)
        THEN {Outcome(1, <<>>, << "init failed" >>, f)}
        ELSE {Outcome(0, << "Password store initialized" >>, <<>>,
                      WriteNode(MkdirAll(f, dir), Append(dir, GpgIdFile),
                                FileNode(IdLines(Positional(args)), <<>>)))}

ToolInsert(f, prefix, args, in) ==
    LET names == Positional(args)
        path == EntryFile(prefix, names[1])
        idFile == Append(Components(prefix), GpgIdFile)
        usable == /\ Len(names) = 1
                  /\ idFile \in DOMAIN f
                  /\ f[idFile].kind = "file"
                  /\ Recipients(f[idFile].data) # {}
                  /\ Recipients(f[idFile].data) \subseteq KnownKeys
                  /\ CanMkdirAll(f, Parent(path))
                  /\ (path \in DOMAIN f => f[path].kind = "file")
        failure == Outcome(1, <<>>, << "insert failed" >>, f)
        success == Outcome(0, <<>>, <<>>,
                           WriteNode(MkdirAll(f, Parent(path)), path,
                                     FileNode(in, f[idFile].data)))
    IN  IF ~usable THEN {failure}
        ELSE IF path \in DOMAIN f /\ ~HasFlag(args, ForceFlag)
        THEN {failure, success}
        ELSE {success}

ToolShow(f, e, prefix, args, in) ==
    LET names == Positional(args)
        path == EntryFile(prefix, names[1])
        decrypts == /\ Len(names) = 1
                    /\ path \in DOMAIN f
                    /\ f[path].kind = "file"
                    /\ Getenv(e, GpgOptsVar) = ShowGpgOpts
                    /\ FirstLine(in) = TestGpgPassphrase
                    /\ TestGpgID \in Recipients(f[path].key)
    IN  IF decrypts THEN {Outcome(0, f[path].data, <<>>, f)}
        ELSE IF Len(names) = 1 /\ path \in DOMAIN f
        THEN { Outcome(2, out, << "gpg: decryption failed" >>, f)
               : out \in {<<>>, PartialOutput} }
        ELSE { Outcome(1, out, << "Error: not in the password store" >>, f)
               : out \in {<<>>, PartialOutput} }

ToolRemove(f, prefix, args) ==
    LET names == Positional(args)
        path == EntryFile(prefix, names[1])
        dir == Components(prefix \o Slash \o names[1])
        stop == Components(prefix)
    IN  IF Len(names) = 1 /\ path \in DOMAIN f /\ f[path].kind = "file"
        THEN {Outcome(0, <<>>, <<>>,
                      PruneEmpty(RemoveTree(f, path), Parent(path), stop))}
        ELSE IF /\ Len(names) = 1
                /\ dir \in DOMAIN f
                /\ f[dir].kind = "dir"
                /\ Len(dir) > Len(stop)
                /\ HasFlag(args, RecursiveFlag)
        THEN {Outcome(0, <<>>, <<>>,
                      PruneEmpty(RemoveTree(f, dir), Parent(dir), stop))}
        ELSE {Outcome(1, <<>>, << "rm failed" >>, f)}

ToolMoveCopy(f, prefix, args, move) ==
    LET names == Positional(args)
        old == EntryFile(prefix, names[1])
        new == EntryFile(prefix, names[2])
        copied == WriteNode(MkdirAll(f, Parent(new)), new, f[old])
        failure == Outcome(1, <<>>, << "mv or cp failed" >>, f)
    IN  IF \/ Len(names) # 2
           \/ old \notin DOMAIN f
           \/ f[old].kind # "file"
           \/ old = new
           \/ ~CanMkdirAll(f, Parent(new))
           \/ (new \in DOMAIN f /\ f[new].kind # "file")
        THEN {failure}
        ELSE IF new \in DOMAIN f /\ ~HasFlag(args, ForceFlag)
        THEN {failure, Outcome(0, <<>>, <<>>, f)}
        ELSE {Outcome(0, <<>>, <<>>,
                      IF move
                      THEN PruneEmpty(RemoveTree(copied, old), Parent(old),
                                      Components(prefix))
                      ELSE copied)}

GitConfig == << "c", "o", "n", "f", "i", "g" >>

ToolGit(f, prefix, args) ==
    LET dir == Components(prefix)
        gitDir == Append(dir, DotGit)
    IN  IF args # <<>> /\ args[1] = << "init" >> /\ CanMkdirAll(f, gitDir)
        THEN {Outcome(0, <<>>, <<>>,
                      WriteNode(MkdirAll(f, gitDir), Append(gitDir, GitConfig),
                                FileNode(<<>>, <<>>)))}
        ELSE IF gitDir \in DOMAIN f /\ f[gitDir].kind = "dir"
        THEN {Outcome(0, <<>>, <<>>, f)}
        ELSE {Outcome(1, <<>>, << "not a git repository" >>, f)}

\* The outcomes of one run of the tool with the given environment,
\* arguments and standard input.
ToolOutcomes(f, e, argv, in) ==
    LET prefix == ToolPrefix(e)
        args == Tail(argv)
    IN  CASE argv[1] = << "init" >> -> ToolInit(f, prefix, args)
          [] argv[1] = << "insert" >> -> ToolInsert(f, prefix, args, in)
          [] argv[1] = << "show" >> -> ToolShow(f, e, prefix, args, in)
          [] argv[1] = << "rm" >> -> ToolRemove(f, prefix, args)
          [] argv[1] = << "mv" >> -> ToolMoveCopy(f, prefix, args, TRUE)
          [] argv[1] = << "cp" >> -> ToolMoveCopy(f, prefix, args, FALSE)
          [] argv[1] = << "git" >> -> ToolGit(f, prefix, args)

\* The paths at which trees f and g differ.
ChangedPaths(f, g) ==
    { q \in DOMAIN f \cup DOMAIN g :
        q \notin DOMAIN f \/ q \notin DOMAIN g \/ f[q] # g[q] }

\* Tree f with the paths in K as tree g has them.
TreeWith(f, g, K) ==
    [q \in { p \in DOMAIN f \cup DOMAIN g :
               IF p \in K THEN p \in DOMAIN g ELSE p \in DOMAIN f }
       |-> IF q \in K THEN g[q] ELSE f[q]]

\* The trees a tool that is stopped on its way from tree f to tree g can
\* leave: any part of the changes made, as long as every node has its
\* directory.
PartialTrees(f, g) ==
    { h \in { TreeWith(f, g, K) : K \in SUBSET ChangedPaths(f, g) } :
        \A q \in DOMAIN h : q = <<>> \/ Parent(q) \in DOMAIN h }

\* The text of the error cmd.Run returns for an exit code other than 0.
ExitStatus(code) == << "exit status " \o ToString(code) >>

(***************************************************************************)
(* The state: the file system, the library's walk order, the parent        *)
(* process's environment, the call in progress (one caller, one call at a  *)
(* time), its context, its command, its walk and its result, and the       *)
(* number of changes other programs made to the tree during the call.      *)
(***************************************************************************)
VARIABLES fs, readsFirst, env, pc, call, ctx, cancelled, cmd, wk, ret,
          lastInsert, writes, nodes, changes

vars == << fs, readsFirst, env, pc, call, ctx, cancelled, cmd, wk, ret,
           lastInsert, writes, nodes, changes >>

\* The inputs of the calls.
StoreS == << "/", "s" >>
HomeH == << "/", "h" >>
StoreP == << "/", "p" >>
EntryNames == { << "x" >>, << "a", "/", "x" >> }
Contents == { <<>>, << "m" >>, << "m", "\n", "q" >> }
Passphrases == {TestGpgPassphrase, WrongPassphrase}
InitSubfolders == { <<>>, << "a" >> }
GitArgLists == { << << "init" >> >>, << << "push" >>, << "origin" >> >> }
AllOptions == {NilOptions, Options(<<>>), Options(StoreS)}
ParentEnvs ==
    { [n \in EnvVars |-> IF n = "HOME" THEN HomeH
                         ELSE IF n = StoreDirVar THEN d
                         ELSE Unset] : d \in {Unset, StoreP} }

\* The names the environment gives the nodes it adds.
NodeNames ==
    { DotGit, << "a" >>, << "a", ".", "g", "p", "g" >>,
      << "b", ".", "g", "p", "g" >> }
\* The nodes the environment adds under each name: directories of every
\* kind, regular files, symbolic links to the sibling ".git", which lead
\* to a directory, to themselves or nowhere as the tree has it, and a
\* symbolic link to the home directory, outside the store.
AddedNodes(name) ==
    IF name = DotGit THEN {DirNode, UnreadableDirNode, SymlinkNode(DotGit)}
    ELSE IF name = << "a" >>
    THEN {DirNode, UnreadableDirNode, ReadOnlyDirNode, SearchOnlyDirNode,
          SymlinkNode(DotGit), SymlinkNode(HomeH)}
    ELSE IF name = << "a", ".", "g", "p", "g" >>
    THEN {FileNode(<<>>, <<>>), DirNode, SymlinkNode(DotGit)}
    ELSE {FileNode(<<>>, <<>>), UnreadableDirNode}
\* The calls of List where the tree is explored, as pairs of Options and
\* subfolder: the store and a directory, a file, ".git", paths below ".git"
\* and below "a", subfolders with a ".." element that stay in the store or
\* leave it, and store directories that are not clean paths: with ".", with
\* ".." and with a slash at the end; and calls without Options or without
\* a StoreDir, which walk the store in the home directory.
ListCalls ==
    { << Options(StoreS), <<>> >>,
      << Options(StoreS), << "a" >> >>,
      << Options(StoreS), DotGit >>,
      << Options(StoreS), << "b", ".", "g", "p", "g" >> >>,
      << Options(StoreS), DotGit \o Slash \o << "a" >> >>,
      << Options(StoreS), << "a" >> \o Slash \o DotGit >>,
      << Options(StoreS), << "a" >> \o Slash \o << "b", ".", "g", "p", "g" >> >>,
      << Options(StoreS), << "a" >> \o Slash \o DotDot >>,
      << Options(StoreS \o Slash \o << "a" >>), DotDot >>,
      << Options(StoreS \o Slash \o << "a" >> \o Slash), <<>> >>,
      << Options(StoreS \o Slash \o DotGit \o Slash \o Dot), <<>> >>,
      << Options(StoreS \o Slash \o << "a" >> \o Slash \o DotDot), <<>> >>,
      << NilOptions, <<>> >>,
      << NilOptions, << "a" >> >>,
      << Options(<<>>), <<>> >> }

NoCall ==
    [op |-> "none", name |-> <<>>, newPath |-> <<>>, content |-> <<>>,
     passphrase |-> <<>>, gpgID |-> <<>>, subfolder |-> <<>>, gitArgs |-> <<>>,
     force |-> FALSE, recursive |-> FALSE, opts |-> NilOptions]

NoInsert == [valid |-> FALSE, name |-> <<>>, content |-> <<>>, opts |-> NilOptions]

\* A machine with a home directory and nothing else.
BareFs == (<<>> :> DirNode) @@ (<< << "h" >> >> :> DirNode)

\* A machine whose stores exist and are initialised for the test key.
InitialisedFs ==
    LET id == FileNode(IdLines(<< TestGpgID >>), <<>>)
    IN  (<<>> :> DirNode) @@ (<< << "h" >> >> :> DirNode)
        @@ (<< << "h" >>, DefaultStoreName >> :> DirNode)
        @@ (<< << "h" >>, DefaultStoreName, GpgIdFile >> :> id)
        @@ (<< << "s" >> >> :> DirNode)
        @@ (<< << "s" >>, GpgIdFile >> :> id)
        @@ (<< << "p" >> >> :> DirNode)
        @@ (<< << "p" >>, GpgIdFile >> :> id)

Idle ==
    /\ pc = "idle"
    /\ call = NoCall
    /\ ctx = "live"
    /\ cancelled = FALSE
    /\ cmd = NoCmd
    /\ wk = NoWalk
    /\ ret = NoResult
    /\ lastInsert = NoInsert
    /\ writes = 0
    /\ nodes = 0
    /\ changes = 0

Init ==
    /\ fs \in {BareFs, InitialisedFs}
    /\ readsFirst = TRUE
    /\ env \in ParentEnvs
    /\ Idle

\* An operation that runs the tool is called: it builds its command.
StartCall(c, command, writing) ==
    /\ pc = "idle"
    /\ writing => writes < MaxWrites
    /\ pc' = "exec"
    /\ call' = c
    /\ cmd' = command
    /\ writes' = IF writing THEN writes + 1 ELSE writes
    /\ lastInsert' = IF writing THEN NoInsert ELSE lastInsert
    /\ UNCHANGED << fs, readsFirst, env, ctx, cancelled, wk, ret, nodes, changes >>

CallInit(gpgID, subfolder, opts) ==
    StartCall([NoCall EXCEPT !.op = "Init", !.gpgID = gpgID,
                             !.subfolder = subfolder, !.opts = opts],
              execCommand(Subcommand("Init"), InitArgs(gpgID, subfolder),
                          FALSE, <<>>, <<>>, opts),
              TRUE)

CallShow(name, gpgPassphrase, opts) ==
    StartCall([NoCall EXCEPT !.op = "Show", !.name = name,
                             !.passphrase = gpgPassphrase, !.opts = opts],
              execCommand(Subcommand("Show"), << name >>, TRUE, gpgPassphrase,
                          << << GpgOptsVar, ShowGpgOpts >> >>, opts),
              FALSE)

CallInsert(name, content, force, opts) ==
    StartCall([NoCall EXCEPT !.op = "Insert", !.name = name,
                             !.content = content, !.force = force,
                             !.opts = opts],
              execCommand(Subcommand("Insert"), InsertArgs(name, force),
                          TRUE, content, <<>>, opts),
              TRUE)

CallRemove(name, recursive, force, opts) ==
    StartCall([NoCall EXCEPT !.op = "Remove", !.name = name,
                             !.recursive = recursive, !.force = force,
                             !.opts = opts],
              execCommand(Subcommand("Remove"),
                          RemoveArgs(name, recursive, force),
                          FALSE, <<>>, <<>>, opts),
              TRUE)

CallMove(oldPath, newPath, force, opts) ==
    StartCall([NoCall EXCEPT !.op = "Move", !.name = oldPath,
                             !.newPath = newPath, !.force = force,
                             !.opts = opts],
              execCommand(Subcommand("Move"), MoveArgs(oldPath, newPath, force),
                          FALSE, <<>>, <<>>, opts),
              TRUE)

CallCopy(oldPath, newPath, force, opts) ==
    StartCall([NoCall EXCEPT !.op = "Copy", !.name = oldPath,
                             !.newPath = newPath, !.force = force,
                             !.opts = opts],
              execCommand(Subcommand("Copy"), CopyArgs(oldPath, newPath, force),
                          FALSE, <<>>, <<>>, opts),
              TRUE)

CallGit(gitArgs, opts) ==
    StartCall([NoCall EXCEPT !.op = "Git", !.gitArgs = gitArgs, !.opts = opts],
              execCommand(Subcommand("Git"), gitArgs, FALSE, <<>>, <<>>, opts),
              TRUE)

\* ctx.Err() of a context that is done.
ContextError(c) ==
    IF c = "canceled" THEN << "context canceled" >>
    ELSE << "context deadline exceeded" >>

\* The errors of exec.LookPath, which exec.CommandContext keeps for
\* cmd.Run: the program is in no directory of $PATH, or only in one that
\* $PATH names relative to the working directory.
LookPathErrors ==
    { << "exec: \"pass\": executable file not found in $PATH" >>,
      << "exec: \"pass\": cannot run executable found relative to current directory" >> }

\* The errors of setting up the pipes of the process and of
\* os.StartProcess, for a program found at /usr/bin/pass.
StartProcessErrors ==
    { << "pipe2: too many open files" >>,
      << "fork/exec /usr/bin/pass: exec format error" >>,
      << "fork/exec /usr/bin/pass: permission denied" >>,
      << "fork/exec /usr/bin/pass: no such file or directory" >>,
      << "fork/exec /usr/bin/pass: resource temporarily unavailable" >>,
      << "fork/exec /usr/bin/pass: cannot allocate memory" >> }

\* The errors with which cmd.Run can return without having started a
\* process: the error of the lookup (looked at first, whatever the
\* context), then the error of a context that is already done, then the
\* errors of the operating system.
StartErrors(c) ==
    LookPathErrors
        \cup (IF c # "live" THEN { ContextError(c) } ELSE StartProcessErrors)

\* cmd.Run cannot start the process.
StartFails ==
    /\ pc = "exec"
    /\ cmd.state = "none"
    /\ \E e \in StartErrors(ctx) :
          cmd' = [cmd EXCEPT !.runs = @ + 1, !.state = "failed",
                             !.runErr = Error(e)]
    /\ UNCHANGED << fs, readsFirst, env, pc, call, ctx, cancelled, wk, ret,
                    lastInsert, writes, nodes, changes >>

\* cmd.Run starts the process.
Start ==
    /\ pc = "exec"
    /\ cmd.state = "none"
    /\ ctx = "live"
    /\ cmd' = [cmd EXCEPT !.runs = @ + 1, !.started = @ + 1, !.state = "running"]
    /\ UNCHANGED << fs, readsFirst, env, pc, call, ctx, cancelled, wk, ret,
                    lastInsert, writes, nodes, changes >>

\* The caller's context is cancelled, or its deadline passes, while the
\* call is in flight.
CancelContext ==
    /\ \/ pc = "exec" /\ cmd.state \in {"none", "running"}
       \/ pc = "walk"
    /\ ctx = "live"
    /\ ctx' \in {"canceled", "deadline"}
    /\ cancelled' = TRUE
    /\ UNCHANGED << fs, readsFirst, env, pc, call, cmd, wk, ret, lastInsert,
                    writes, nodes, changes >>

\* exec.CommandContext kills the process of a context that is done: the
\* process ends by the signal, with any part of its work on the tree done
\* and any part of its output written.
Kill ==
    /\ pc = "exec"
    /\ cmd.state = "running"
    /\ ctx # "live"
    /\ \E o \in ToolOutcomes(fs, ChildEnv(env, cmd.env), cmd.argv, cmd.stdin) :
          /\ fs' \in PartialTrees(fs, o.fs)
          /\ \E out \in {<<>>, o.stdout} :
                cmd' = [cmd EXCEPT !.state = "killed",
                                   !.stdout = out,
                                   !.runErr = Error(<< "signal: killed" >>)]
    /\ UNCHANGED << readsFirst, env, pc, call, ctx, cancelled, wk, ret,
                    lastInsert, writes, nodes, changes >>

\* The errors cmd.Run can return for a process that exited with the given
\* code: the exit status for a code other than 0; for code 0 none, or,
\* when the context was done before cmd.Run saw the exit, the error of the
\* context (as the library since Go 1.20 returns it).
ExitErrors(code, c) ==
    IF code # 0 THEN { Error(ExitStatus(code)) }
    ELSE IF c = "live" THEN { NoError }
    ELSE { NoError, Error(ContextError(c)) }

\* The process runs to its end: the tool acts on the file system, writes
\* its output (standard output is captured, standard error is not) and
\* exits.
Exit ==
    /\ pc = "exec"
    /\ cmd.state = "running"
    /\ \E o \in ToolOutcomes(fs, ChildEnv(env, cmd.env), cmd.argv, cmd.stdin) :
          /\ fs' = o.fs
          /\ \E e \in ExitErrors(o.exit, ctx) :
                cmd' = [cmd EXCEPT
                          !.state = "exited",
                          !.stdout = o.stdout,
                          !.stderr = o.stderr,
                          !.runErr = e]
    /\ UNCHANGED << readsFirst, env, pc, call, ctx, cancelled, wk, ret,
                    lastInsert, writes, nodes, changes >>

\* cmd.Run has returned: execCommand and the operation return.
Return ==
    /\ pc = "exec"
    /\ cmd.state \in {"failed", "killed", "exited"}
    /\ IF RunsAgain(cmd)
       THEN /\ cmd' = [cmd EXCEPT !.state = "none", !.runErr = NoError,
                                  !.stdout = <<>>, !.stderr = <<>>]
            /\ UNCHANGED << pc, ret, lastInsert >>
       ELSE /\ pc' = "returned"
            /\ ret' = IF call.op = "Show" THEN ShowResult(cmd)
                      ELSE OpResult(call.op, cmd)
            /\ lastInsert' =
                 IF call.op = "Insert" /\ ~call.force /\ cmd.runErr.isNil
                 THEN [valid |-> TRUE, name |-> call.name,
                       content |-> call.content, opts |-> call.opts]
                 ELSE lastInsert
            /\ UNCHANGED cmd
    /\ UNCHANGED << fs, readsFirst, env, call, ctx, cancelled, wk, writes,
                    nodes, changes >>

\* List is called: it computes its directories and filepath.Walk begins.
CallList(subfolder, opts) ==
    /\ pc = "idle"
    /\ pc' = "walk"
    /\ call' = [NoCall EXCEPT !.op = "List", !.subfolder = subfolder,
                              !.opts = opts]
    /\ wk' = WalkBegin(ListTargetDir(env, subfolder, opts))
    /\ UNCHANGED << fs, readsFirst, env, ctx, cancelled, cmd, ret, lastInsert,
                    writes, nodes, changes >>

\* filepath.Walk looks at the file system once and goes on.
WalkStep ==
    /\ pc = "walk"
    /\ ~WalkDone(wk)
    /\ wk' = walk(fs, readsFirst, ListStoreDir(env, call.opts), wk)
    /\ UNCHANGED << fs, readsFirst, env, pc, call, ctx, cancelled, cmd, ret,
                    lastInsert, writes, nodes, changes >>

\* filepath.Walk has returned: List returns.
ListReturn ==
    /\ pc = "walk"
    /\ WalkDone(wk)
    /\ pc' = "returned"
    /\ ret' = ListResult(listResult(wk))
    /\ UNCHANGED << fs, readsFirst, env, call, ctx, cancelled, cmd, wk,
                    lastInsert, writes, nodes, changes >>

\* The caller has its result; the next call may begin.
Finish ==
    /\ pc = "returned"
    /\ pc' = "idle"
    /\ call' = NoCall
    /\ ctx' = "live"
    /\ cancelled' = FALSE
    /\ cmd' = NoCmd
    /\ wk' = NoWalk
    /\ ret' = NoResult
    /\ changes' = 0
    /\ UNCHANGED << fs, readsFirst, env, lastInsert, writes, nodes >>

Next ==
    \/ \E s \in InitSubfolders, o \in AllOptions : CallInit(TestGpgID, s, o)
    \/ \E n \in EntryNames, p \in Passphrases, o \in AllOptions : CallShow(n, p, o)
    \/ \E n \in EntryNames, c \in Contents, f \in BOOLEAN, o \in AllOptions :
          CallInsert(n, c, f, o)
    \/ \E n \in EntryNames, r \in BOOLEAN, f \in BOOLEAN, o \in AllOptions :
          CallRemove(n, r, f, o)
    \/ \E n \in EntryNames, m \in EntryNames, f \in BOOLEAN, o \in AllOptions :
          CallMove(n, m, f, o)
    \/ \E n \in EntryNames, m \in EntryNames, f \in BOOLEAN, o \in AllOptions :
          CallCopy(n, m, f, o)
    \/ \E g \in GitArgLists, o \in AllOptions : CallGit(g, o)
    \/ \E s \in InitSubfolders, o \in AllOptions : CallList(s, o)
    \/ StartFails
    \/ Start
    \/ CancelContext
    \/ Kill
    \/ Exit
    \/ Return
    \/ WalkStep
    \/ ListReturn
    \/ Finish

Spec == Init /\ [][Next]_vars

(***************************************************************************)
(* The store tree as other programs leave it: a second specification in    *)
(* which the environment adds nodes below the store directories, /s and    *)
(* the one in the home directory, and List is called on the result.        *)
(***************************************************************************)
HomeStore == << << "h" >>, DefaultStoreName >>
StoreRoots == { << << "s" >> >>, HomeStore }
\* node is a store directory or below one.
InStore(node) == \E r \in StoreRoots : IsPrefixOf(r, node)

\* Whether other programs may change the store directory now: always
\* between calls, and a bounded number of times during a call of List.
MayChange == pc = "idle" \/ (pc = "walk" /\ changes < MaxChanges)

\* Some program adds a node below a store directory; below the one in
\* the home directory, and while List walks, only plain directories and
\* regular files.
EnvAdd(parent, name, node) ==
    /\ MayChange
    /\ (pc = "walk" \/ IsPrefixOf(HomeStore, parent))
          => node \in {DirNode, FileNode(<<>>, <<>>)}
    /\ nodes < MaxNodes
    /\ parent \in DOMAIN fs
    /\ IsDir(fs[parent])
    /\ \E r \in StoreRoots :
          IsPrefixOf(r, parent) /\ Len(parent) - Len(r) < MaxDepth
    /\ Append(parent, name) \notin DOMAIN fs
    /\ fs' = WriteNode(fs, Append(parent, name), node)
    /\ nodes' = nodes + 1
    /\ changes' = IF pc = "walk" THEN changes + 1 ELSE changes
    /\ UNCHANGED << readsFirst, env, pc, call, ctx, cancelled, cmd, wk, ret,
                    lastInsert, writes >>

\* Some program removes a node below the store directory, with all below
\* it, while List walks.
EnvRemove(node) ==
    /\ pc = "walk"
    /\ changes < MaxChanges
    /\ node \in DOMAIN fs
    /\ InStore(node)
    /\ node \notin StoreRoots
    /\ fs' = RemoveTree(fs, node)
    /\ changes' = changes + 1
    /\ UNCHANGED << readsFirst, env, pc, call, ctx, cancelled, cmd, wk, ret,
                    lastInsert, writes, nodes >>

InitList ==
    /\ fs \in {BareFs} \cup { WriteNode(BareFs, r, DirNode) : r \in StoreRoots }
    /\ readsFirst \in BOOLEAN
    /\ env \in { e \in ParentEnvs : e[StoreDirVar] = Unset }
    /\ Idle

NextList ==
    \/ \E parent \in DOMAIN fs, n \in NodeNames : \E k \in AddedNodes(n) :
          EnvAdd(parent, n, k)
    \/ \E node \in DOMAIN fs : EnvRemove(node)
    \/ \E c \in ListCalls : CallList(c[2], c[1])
    \/ WalkStep
    \/ ListReturn
    \/ Finish

SpecList == InitList /\ [][NextList]_vars

(***************************************************************************)
(* The claims.                                                             *)
(***************************************************************************)
\* A call of List has returned.
ListReturned == pc = "returned" /\ call.op = "List"
\* A call of the given operation has returned.
Returned(op) == pc = "returned" /\ call.op = op

\* The directories of the call of List, as List computes them.
StoreDirOfCall == ListStoreDir(env, call.opts)
TargetDirOfCall == ListTargetDir(env, call.subfolder, call.opts)
\* The store root as a node path, and the node the target path leads to,
\* a symbolic link at its end not followed.
StoreComponents == Components(StoreDirOfCall)
Target == Locate(fs, TargetDirOfCall, FALSE)
\* No other program changed the store directory during the call.
Quiet == changes = 0

\* The name of node q relative to the store root, without the suffix: ".."
\* for every element of the store root that q does not share, then the
\* rest of q.
EntryNameOf(q) ==
    IF q = StoreComponents THEN Dot
    ELSE TrimSuffix(
           JoinComponents(
             [i \in 1..(Len(StoreComponents) - CommonLen(StoreComponents, q))
                |-> DotDot]
             \o SubSeq(q, CommonLen(StoreComponents, q) + 1, Len(q))),
           GpgSuffix)

\* The entries as C1 states them: the regular files at or below the target
\* whose name ends in ".gpg" and that lie beneath no directory named ".git".
StatedEntries ==
    { q \in DOMAIN fs :
        /\ Target.ok
        /\ IsPrefixOf(Target.at, q)
        /\ fs[q].kind = "file"
        /\ HasSuffix(q[Len(q)], GpgSuffix)
        /\ \A i \in 1..(Len(q) - 1) : q[i] # DotGit }

\* The paths one step below path p in the walk: none unless p is a
\* directory by Lstat (so not a symbolic link), the last element of p is
\* not ".git" and the directory can be read; then p joined with every name
\* in the directory.
PathsBelow(f, p) ==
    IF IsDir(Lstat(f, p)) /\ Base(p) # DotGit /\ ~readDirNames(f, p).failed
    THEN { Join(p, readDirNames(f, p).names[i]) :
             i \in 1..Len(readDirNames(f, p).names) }
    ELSE {}

RECURSIVE PathsFrom(_, _, _)
\* The paths reached from the paths in todo by steps of PathsBelow.
PathsFrom(f, todo, seen) ==
    IF todo = {} THEN seen
    ELSE PathsFrom(f,
                   (UNION { PathsBelow(f, p) : p \in todo }) \ (seen \cup todo),
                   seen \cup todo)

\* The paths the walk of the call comes to on the tree as it is.
WalkedPaths == PathsFrom(fs, {TargetDirOfCall}, {})

\* The entries as the walk finds them: the paths it comes to that name
\* something other than a directory and whose last element ends in ".gpg".
WalkedEntries ==
    { p \in WalkedPaths :
        /\ Lstat(fs, p).kind \in {"file", "symlink"}
        /\ HasSuffix(Base(p), GpgSuffix) }

\* C1 as stated: on a tree that does not change during the call, a
\* successful List returns exactly the names of the regular files under the
\* target whose name ends in ".gpg" and that lie beneath no directory named
\* ".git", each relative to the store root without ".gpg".
C1_Original ==
    (ListReturned /\ ret.err.isNil /\ Quiet)
        => /\ { ret.list[i] : i \in 1..Len(ret.list) }
                 = { EntryNameOf(q) : q \in StatedEntries }
           /\ Len(ret.list) = Cardinality(StatedEntries)

\* C1 as amended: on a tree that does not change during the call, a
\* successful List returns, each once, exactly the names of the regular
\* files and symbolic links whose name ends in ".gpg" among the paths the
\* walk comes to: the target path as List built it and, below every path
\* it comes to that is a directory (a symbolic link is none) whose last
\* element is not ".git", the path joined with every name in that
\* directory.  The name of an entry is its path relative to the cleaned
\* store root, without ".gpg".
C1_ListReturnsEntries ==
    (ListReturned /\ ret.err.isNil /\ Quiet)
        => /\ { ret.list[i] : i \in 1..Len(ret.list) }
                 = { TrimSuffix(Rel(StoreDirOfCall, p), GpgSuffix) :
                       p \in WalkedEntries }
           /\ Len(ret.list) = Cardinality(WalkedEntries)

\* A successful List, on a tree that did not change, that returned an entry
\* and left out a ".gpg" file lying in a ".git" directory below the target.
C1_Witness ==
    /\ ListReturned
    /\ ret.err.isNil
    /\ Quiet
    /\ Len(ret.list) >= 1
    /\ Target.ok
    /\ \E q \in DOMAIN fs :
          /\ IsPrefixOf(Target.at, q)
          /\ fs[q].kind = "file"
          /\ HasSuffix(q[Len(q)], GpgSuffix)
          /\ \E i \in (Len(Target.at) + 1)..(Len(q) - 1) :
                q[i] = DotGit /\ fs[SubSeq(q, 1, i)].kind = "dir"

\* Whether the external process of a call of Show exited with an error.
ShowProcessFailed ==
    Returned("Show") /\ cmd.state = "exited" /\ ~cmd.runErr.isNil

\* s holds sub as a contiguous part.
Contains(s, sub) ==
    \E i \in 0..(Len(s) - Len(sub)) : SubSeq(s, i + 1, i + Len(sub)) = sub

\* C2: when the process Show ran fails, the error Show returns holds the
\* exit diagnostics and what the process wrote to standard output and to
\* standard error.
C2_ErrorEmbedsOutput ==
    ShowProcessFailed
        => /\ ~ret.err.isNil
           /\ Contains(ret.err.msg, cmd.runErr.msg)
           /\ Contains(ret.err.msg, cmd.stdout)
           /\ Contains(ret.err.msg, cmd.stderr)

\* Two paths that name the same directory.
SameDirectory(a, b) == Components(a) = Components(b)

\* C3: the store root the tool resolves from the environment a call hands
\* it is the store root List walks with the same Options.
C3_SameStoreRoot ==
    pc = "exec"
        => SameDirectory(ToolPrefix(ChildEnv(env, cmd.env)),
                         ListStoreDir(env, call.opts))

ExecOps == {"Init", "Show", "Insert", "Remove", "Move", "Copy", "Git"}

\* C4 as stated: a call of Init, Show, Insert, Remove, Move, Copy or Git
\* has started exactly one process when it returns, and a call of List none.
C4_Original ==
    pc = "returned"
        => cmd.started = (IF call.op \in ExecOps THEN 1 ELSE 0)

\* C4 as amended: a call of Init, Show, Insert, Remove, Move, Copy or Git
\* runs its command exactly once, whether the run succeeds or fails, so it
\* starts at most one process, and exactly one unless the process could not
\* be started; a call of List runs no command and starts no process.
C4_OneRun ==
    pc = "returned"
        => IF call.op \in ExecOps
           THEN /\ cmd.runs = 1
                /\ cmd.started <= 1
                /\ (cmd.started = 0 <=> cmd.state = "failed")
           ELSE cmd = NoCmd

\* A call whose process exited with an error has returned.
C4_Witness ==
    /\ pc = "returned"
    /\ call.op \in ExecOps
    /\ cmd.state = "exited"
    /\ ~cmd.runErr.isNil

\* C5: a call that was in flight when its context was cancelled returns an
\* error, and a process it started has ended.
C5_CancelledCallFails ==
    (pc = "returned" /\ cancelled)
        => /\ ~ret.err.isNil
           /\ (cmd.started > 0 => cmd.state \in {"killed", "exited"})

\* Show is called for the entry the last Insert stored, with the same
\* Options and the passphrase of the store's key, and its process ran to
\* its end.
ShowAfterInsert ==
    /\ Returned("Show")
    /\ lastInsert.valid
    /\ lastInsert.name = call.name
    /\ lastInsert.opts = call.opts
    /\ call.passphrase = TestGpgPassphrase
    /\ cmd.state = "exited"

\* C6: after a successful Insert(name, content, force=false), Show(name,
\* matching passphrase) with the same Options succeeds and returns content.
C6_InsertShowRoundTrip ==
    ShowAfterInsert => (ret.err.isNil /\ ret.content = lastInsert.content)

\* The part of C6 the code keeps: with a StoreDir in the Options and a
\* context that is not cancelled, Show after Insert returns the content.
RoundTripWithStoreDir ==
    ( /\ ShowAfterInsert
      /\ ~cancelled
      /\ ~call.opts.isNil
      /\ call.opts.StoreDir # <<>> )
        => (ret.err.isNil /\ ret.content = lastInsert.content)

FlagPositions(a) == { i \in 2..Len(a) : a[i] \in ToolFlags }

\* C7: the arguments of Insert, Remove, Move and Copy are the subcommand
\* name, then the flags the booleans select ("--multiline" always and only
\* for insert), then the names in the order given, and nothing else.
C7_ArgumentOrder ==
    (pc = "exec" /\ call.op \in {"Insert", "Remove", "Move", "Copy"})
        => LET a == cmd.argv
               flags == (IF call.force THEN {ForceFlag} ELSE {})
                          \cup (IF call.recursive THEN {RecursiveFlag} ELSE {})
                          \cup (IF call.op = "Insert" THEN {MultilineFlag} ELSE {})
               names == IF call.op \in {"Move", "Copy"}
                        THEN << call.name, call.newPath >>
                        ELSE << call.name >>
           IN  /\ a[1] = (CASE call.op = "Insert" -> << "insert" >>
                            [] call.op = "Remove" -> << "rm" >>
                            [] call.op = "Move" -> << "mv" >>
                            [] call.op = "Copy" -> << "cp" >>)
               /\ { a[i] : i \in FlagPositions(a) } = flags
               /\ Cardinality(FlagPositions(a)) = Cardinality(flags)
               /\ \A i \in FlagPositions(a) :
                     \A j \in (2..Len(a)) \ FlagPositions(a) : i < j
               /\ SubSeq(a, Len(a) - Len(names) + 1, Len(a)) = names
               /\ Len(a) = 1 + Cardinality(flags) + Len(names)

\* Insert with force set has built its command.
C7_Witness ==
    /\ pc = "exec"
    /\ call.op = "Insert"
    /\ call.force
    /\ Len(cmd.argv) = 4

\* C8: when the process Show ran exits with an error, Show returns an
\* error and no bytes, whatever the process had written.
C8_NoContentOnFailure ==
    (Returned("Show") /\ ~cmd.runErr.isNil)
        => (~ret.err.isNil /\ ret.content = <<>>)

\* The process of Show wrote to standard output and then failed.
C8_Witness == ShowProcessFailed /\ cmd.stdout # <<>>

\* The node an entry name stands for: the store root joined with the name
\* and the suffix.
PathOfEntry(name) == Components(Join(StoreDirOfCall, name \o GpgSuffix))

\* p comes before q in a depth-first walk that takes the names of each
\* directory in increasing byte order.
WalkBefore(p, q) ==
    \E k \in 1..(IF Len(p) < Len(q) THEN Len(p) ELSE Len(q)) :
        /\ SubSeq(p, 1, k - 1) = SubSeq(q, 1, k - 1)
        /\ StrLess(p[k], q[k])

\* C9: List returns its entries in the order of a depth-first walk that
\* visits the children of each directory in lexical order of their file
\* names, each entry once.
C9_WalkOrder ==
    (ListReturned /\ ret.err.isNil)
        => \A i \in 1..Len(ret.list) : \A j \in (i + 1)..Len(ret.list) :
              WalkBefore(PathOfEntry(ret.list[i]), PathOfEntry(ret.list[j]))

\* List returned two entries whose walk order is not the order of the
\* names as strings.
C9_Witness ==
    /\ ListReturned
    /\ ret.err.isNil
    /\ Len(ret.list) = 2
    /\ StrLess(ret.list[2], ret.list[1])

\* The directories the walk comes to and cannot read, whatever their name.
UnreadableMet ==
    { p \in WalkedPaths : IsDir(Lstat(fs, p)) /\ readDirNames(fs, p).failed }

\* The paths where the walk fails: a path it comes to that Lstat cannot
\* resolve, or a directory it comes to, not under the name ".git", that it
\* cannot read.
FailingPaths ==
    { p \in WalkedPaths :
        \/ Lstat(fs, p) = NoNode
        \/ p \in UnreadableMet /\ Base(p) # DotGit }

\* C10 as stated: with an error List returns no names; and on a tree that
\* does not change during the call, List of a target that is a directory
\* and holds no entry returns no names and no error, unless its walk comes
\* to something it cannot read; and List of a target that does not exist,
\* or whose walk comes to any directory it cannot read, returns an error.
C10_Original ==
    ListReturned
        => /\ ~ret.err.isNil => ret.list = <<>>
           /\ (Quiet /\ Lstat(fs, TargetDirOfCall) = NoNode) => ~ret.err.isNil
           /\ (Quiet /\ UnreadableMet # {}) => ~ret.err.isNil
           /\ ( /\ Quiet
                /\ IsDir(Lstat(fs, TargetDirOfCall))
                /\ \A p \in WalkedPaths : Lstat(fs, p) # NoNode
                /\ UnreadableMet = {}
                /\ WalkedEntries = {} )
              => (ret.err.isNil /\ ret.list = <<>>)

\* C10 as amended: with an error List returns no names; and on a tree that
\* does not change during the call, List of a target that is a directory,
\* whose walk can resolve every path and read every directory it comes to
\* and finds no entry, returns no names and no error, and List of a target
\* that does not exist, or whose walk comes to a path it cannot resolve or
\* to a directory, not visited under the name ".git", that it cannot read,
\* returns an error.  (An unreadable directory visited under the name
\* ".git" gives the error or is skipped, as the library has it.)
C10_EmptyOrError ==
    ListReturned
        => /\ ~ret.err.isNil => ret.list = <<>>
           /\ (Quiet /\ Lstat(fs, TargetDirOfCall) = NoNode) => ~ret.err.isNil
           /\ (Quiet /\ FailingPaths # {}) => ~ret.err.isNil
           /\ ( /\ Quiet
                /\ IsDir(Lstat(fs, TargetDirOfCall))
                /\ \A p \in WalkedPaths : Lstat(fs, p) # NoNode
                /\ UnreadableMet = {}
                /\ WalkedEntries = {} )
              => (ret.err.isNil /\ ret.list = <<>>)

\* List failed on a directory it could not read after it had collected an
\* entry.
C10_Witness ==
    /\ ListReturned
    /\ ~ret.err.isNil
    /\ Quiet
    /\ \E p \in FailingPaths : IsDir(Lstat(fs, p))
    /\ wk.acc # <<>>

=============================================================================
